---------------------------- MODULE Spec2Model ----------------------------
(***************************************************************************)
(* Model of src/reranker.py: class CohereReranker.                         *)
(*                                                                         *)
(*   search_opensearch(query, size)        -> list of documents            *)
(*   rerank_with_cohere(query, documents,                                  *)
(*                      top_n)             -> list of reranked documents   *)
(*   search_and_rerank(query, initial_size,                                *)
(*                     top_n)              -> dict of both lists           *)
(*                                                                         *)
(* The two remote services (OpenSearch, Bedrock Cohere Rerank) are the     *)
(* environment: each answers a request with any response it likes, or      *)
(* makes the client call raise.  Every method runs synchronously, so one   *)
(* action covers the code from one blocking service call to the next.      *)
(***************************************************************************)
EXTENDS Integers, Sequences, FiniteSets, TLC

(***************************************************************************)
(* Bounds of the model.                                                    *)
(***************************************************************************)
\* longest hit list / documents list
MaxDocs == 2
\* longest "results" list in a rerank response
MaxResults == 2

(***************************************************************************)
(* Program constants.                                                      *)
(***************************************************************************)
\* "api_version": 2 of the rerank request body
ApiVersion == 2
\* size=20, the default number of hits requested
DefaultSize == 20

(***************************************************************************)
(* Input universes.                                                        *)
(***************************************************************************)
Queries == {"feline", "canine"}
TopNs == {1, 2}

\* _source field maps the index may hold: Python dicts, as functions from the
\* keys present to their values.  SrcTitle has no 'full_text' key.
SrcCats == ("full_text" :> "cats" @@ "title" :> "c")
SrcTitle == ("title" :> "d")
SrcDogs == ("full_text" :> "dogs")

\* the hits the search service may return, in any order and multiplicity
HitPool ==
    { [_id |-> "a", _score |-> 3, _source |-> SrcCats],
      [_id |-> "b", _score |-> 2, _source |-> SrcTitle],
      [_id |-> "c", _score |-> 1, _source |-> SrcDogs] }

\* relevance scores the rerank service may attach
RelevanceScores == {1, 2}
\* indices the rerank service may return: valid ones, index = len(documents),
\* and negative ones down to below -len(documents)
Indices == (0 - (MaxDocs + 1)) .. MaxDocs

\* all sequences over S of length at most n
SeqsUpTo(S, n) == UNION { [1..k -> S] : k \in 0..n }

HitLists == SeqsUpTo(HitPool, MaxDocs)
ResultEntries == [index : Indices, relevance_score : RelevanceScores]
ResultLists == SeqsUpTo(ResultEntries, MaxResults)

(***************************************************************************)
(* State.                                                                  *)
(***************************************************************************)
VARIABLES
    pc,             \* "idle" | "search_wait" | "rerank_wait" | "done" | "failed"
    entry,          \* the method the caller invoked ("none" before the call)
    query,          \* argument query
    top_n,          \* argument top_n
    search_body,    \* <<>> or <<body>>: the body sent to opensearch_client.search
    hits,           \* response['hits']['hits'] of the search service
    search_ret,     \* <<>> or <<list>>: the list search_opensearch returned
    documents,      \* the list object given to rerank_with_cohere, as it is now
    documents_in,   \* <<>> or <<list>>: that list as it was when passed in
    request_body,   \* <<>> or <<body>>: the body sent to bedrock invoke_model
    results,        \* response_body['results'] of the rerank service
    rerank_ret,     \* <<>> or <<list>>: the list rerank_with_cohere returned
    result,         \* <<>> or <<value>>: the value returned to the caller
    error,          \* "none" or the exception that reached the caller
    trace           \* the service calls and their returns, in order

vars == <<pc, entry, query, top_n, search_body, hits, search_ret, documents,
          documents_in, request_body, results, rerank_ret, result, error,
          trace>>

(***************************************************************************)
(* Python primitives.                                                      *)
(***************************************************************************)
\* Mutant of DictGet: d.pop(k, default), which removes the key it reads
DictPop(d, k, default) ==
    [value |-> IF k \in DOMAIN d THEN d[k] ELSE default,
     dict |-> [x \in DOMAIN d \ {k} |-> d[x]]]

\* d.get(k, default): the value read, and the dict afterwards (get never
\* changes the dict)
DictGet(d, k, default) ==
    [value |-> IF k \in DOMAIN d THEN d[k] ELSE default, dict |-> d]

\* whether lst[i] raises IndexError for a list of length n
IndexErrorAt(n, i) == i >= n \/ i < 0 - n

\* lst[i] for a Python list (0-based; a negative i counts from the end),
\* given as a 1-based sequence
ListItem(lst, i) == IF i >= 0 THEN lst[i + 1] ELSE lst[Len(lst) + i + 1]


(***************************************************************************)
(* search_opensearch.                                                      *)
(***************************************************************************)
\* the body of the search request
SearchBody(q, size) ==
    [query |-> [multi_match |-> [query |-> q, fields |-> <<"*">>]],
     size |-> size]

\* Mutant of BuildDocuments: the hits are walked from the last to the first
BuildDocumentsReversed(hs) ==
    [k \in 1..Len(hs) |->
        [id |-> hs[Len(hs) + 1 - k]._id,
         score |-> hs[Len(hs) + 1 - k]._score,
         source |-> hs[Len(hs) + 1 - k]._source]]

\* the loop over response['hits']['hits']: one document per hit, in order
BuildDocuments(hs) ==
    [k \in 1..Len(hs) |->
        [id |-> hs[k]._id, score |-> hs[k]._score, source |-> hs[k]._source]]

\* the documents lists a caller may hand to rerank_with_cohere
DocumentLists == { BuildDocuments(hs) : hs \in HitLists }

\* what makes the search call raise: the transport, or a response without
\* the keys the code reads
SearchExceptions == {"ConnectionError", "KeyError"}

(***************************************************************************)
(* rerank_with_cohere.                                                     *)
(***************************************************************************)
\* Mutant of DocTexts: a document without 'full_text' is skipped, not sent
\* as the empty string
HasFullText(doc) == "full_text" \in DOMAIN doc.source
DocTextsSkipMissing(docs) ==
    LET kept == SelectSeq(docs, HasFullText)
    IN  [i \in 1..Len(kept) |-> kept[i].source["full_text"]]

\* doc_texts: for each document, in order, doc['source'].get('full_text', '')
DocTexts(docs) ==
    [i \in 1..Len(docs) |-> DictGet(docs[i].source, "full_text", "").value]

\* the documents list after the extraction loop has read every document
DocumentsAfterExtraction(docs) ==
    [i \in 1..Len(docs) |->
        [docs[i] EXCEPT !.source = DictGet(docs[i].source, "full_text", "").dict]]

\* the body of the rerank request
RequestBody(q, doc_texts, n) ==
    [query |-> q, documents |-> doc_texts, top_n |-> n,
     api_version |-> ApiVersion]

\* whether documents[result['index']] raises for some entry of the response
HasIndexError(docs, res) ==
    \E k \in 1..Len(res) : IndexErrorAt(Len(docs), res[k].index)

\* Mutant of RerankedDocs: the two scores are stored in each other's field
RerankedDocsScoresSwapped(docs, res) ==
    [k \in 1..Len(res) |->
        LET original_doc == ListItem(docs, res[k].index)
        IN  [id |-> original_doc.id,
             original_score |-> res[k].relevance_score,
             rerank_score |-> original_doc.score,
             source |-> original_doc.source]]

\* Mutant of RerankedDocs: the records are sorted locally by original_score,
\* descending
RECURSIVE InsertByOriginalScore(_, _)
InsertByOriginalScore(r, s) ==
    IF s = <<>> THEN <<r>>
    ELSE IF r.original_score > Head(s).original_score THEN <<r>> \o s
    ELSE <<Head(s)>> \o InsertByOriginalScore(r, Tail(s))
RECURSIVE SortByOriginalScore(_)
SortByOriginalScore(s) ==
    IF s = <<>> THEN <<>>
    ELSE InsertByOriginalScore(Head(s), SortByOriginalScore(Tail(s)))
RerankedDocsSorted(docs, res) ==
    SortByOriginalScore(
        [k \in 1..Len(res) |->
            LET original_doc == ListItem(docs, res[k].index)
            IN  [id |-> original_doc.id,
                 original_score |-> original_doc.score,
                 rerank_score |-> res[k].relevance_score,
                 source |-> original_doc.source]])

\* reranked_docs: one record per entry of the response, in the response's order
RerankedDocs(docs, res) ==
    [k \in 1..Len(res) |->
        LET original_doc == ListItem(docs, res[k].index)
        IN  [id |-> original_doc.id,
             original_score |-> original_doc.score,
             rerank_score |-> res[k].relevance_score,
             source |-> original_doc.source]]

\* what makes the rerank call raise before the matching loop: the Bedrock
\* client, or a body that is not the JSON the code reads
RerankExceptions == {"ClientError", "JSONDecodeError"}

(***************************************************************************)
(* search_and_rerank.                                                      *)
(***************************************************************************)
\* Mutant of SearchAndRerankReturn: original_results loses its first document
SearchAndRerankReturnDropsFirst(q, original_docs, reranked_docs) ==
    [query |-> q,
     original_results |->
        IF original_docs = <<>> THEN <<>> ELSE Tail(original_docs),
     reranked_results |-> reranked_docs]

\* the dict search_and_rerank returns
SearchAndRerankReturn(q, original_docs, reranked_docs) ==
    [query |-> q,
     original_results |-> original_docs,
     reranked_results |-> reranked_docs]

(***************************************************************************)
(* Steps shared by the actions.                                            *)
(***************************************************************************)
\* Mutant of Raise: search_and_rerank catches a failure of the rerank step
\* and returns the retrieved documents with no reranked ones
RaiseWithFallback(exc) ==
    IF entry = "search_and_rerank" /\ search_ret # <<>>
    THEN /\ pc' = "done"
         /\ error' = "none"
         /\ result' = <<[query |-> query,
                         original_results |-> search_ret[1],
                         reranked_results |-> <<>>]>>
    ELSE /\ pc' = "failed"
         /\ error' = exc
         /\ result' = <<>>

\* an exception leaves the running method and every caller above it: no
\* method of the class has a try/except, so it reaches the caller with no
\* value returned
Raise(exc) ==
    /\ pc' = "failed"
    /\ error' = exc
    /\ result' = <<>>

\* Mutant of RerankIssue: an empty documents list returns [] at once, with
\* no request to the rerank service
RerankIssueShortCircuit(q, docs, n, tr) ==
    IF docs = <<>>
    THEN /\ documents_in' = <<docs>>
         /\ documents' = docs
         /\ request_body' = request_body
         /\ trace' = tr
         /\ pc' = "done"
         /\ rerank_ret' = << <<>> >>
         /\ result' = << <<>> >>
         /\ UNCHANGED <<results, error>>
    ELSE /\ documents_in' = <<docs>>
         /\ documents' = docs
         /\ request_body' =
              <<[query |-> q,
                 documents |->
                    [i \in 1..Len(docs) |->
                        IF "full_text" \in DOMAIN docs[i].source
                        THEN docs[i].source["full_text"] ELSE ""],
                 top_n |-> n, api_version |-> ApiVersion]>>
         /\ trace' = Append(tr, "rerank_request")
         /\ pc' = "rerank_wait"
         /\ UNCHANGED <<results, rerank_ret, result, error>>

\* rerank_with_cohere from its first line to the blocking invoke_model call;
\* tr is the trace so far
RerankIssue(q, docs, n, tr) ==
    /\ documents_in' = <<docs>>
    /\ documents' = DocumentsAfterExtraction(docs)
    /\ request_body' = <<RequestBody(q, DocTexts(docs), n)>>
    /\ trace' = Append(tr, "rerank_request")
    /\ pc' = "rerank_wait"
    /\ UNCHANGED <<results, rerank_ret, result, error>>

(***************************************************************************)
(* Initial state and actions.                                              *)
(***************************************************************************)
Init ==
    /\ pc = "idle"
    /\ entry = "none"
    /\ query = ""
    /\ top_n = 0
    /\ search_body = <<>>
    /\ hits = <<>>
    /\ search_ret = <<>>
    /\ documents = <<>>
    /\ documents_in = <<>>
    /\ request_body = <<>>
    /\ results = <<>>
    /\ rerank_ret = <<>>
    /\ result = <<>>
    /\ error = "none"
    /\ trace = <<>>

\* the caller invokes search_opensearch(q): the search request goes out
CallSearchOpensearch ==
    /\ pc = "idle"
    /\ \E q \in Queries :
          /\ query' = q
          /\ search_body' = <<SearchBody(q, DefaultSize)>>
    /\ entry' = "search_opensearch"
    /\ trace' = Append(trace, "search_request")
    /\ pc' = "search_wait"
    /\ UNCHANGED <<top_n, hits, search_ret, documents, documents_in,
                   request_body, results, rerank_ret, result, error>>

\* the caller invokes rerank_with_cohere(q, docs, n): the rerank request
\* goes out
CallRerankWithCohere ==
    /\ pc = "idle"
    /\ \E q \in Queries, docs \in DocumentLists, n \in TopNs :
          /\ query' = q
          /\ top_n' = n
          /\ RerankIssue(q, docs, n, trace)
    /\ entry' = "rerank_with_cohere"
    /\ UNCHANGED <<search_body, hits, search_ret>>

\* the caller invokes search_and_rerank(q, top_n=n): its first call is
\* search_opensearch, whose request goes out
CallSearchAndRerank ==
    /\ pc = "idle"
    /\ \E q \in Queries, n \in TopNs :
          /\ query' = q
          /\ top_n' = n
          /\ search_body' = <<SearchBody(q, DefaultSize)>>
    /\ entry' = "search_and_rerank"
    /\ trace' = Append(trace, "search_request")
    /\ pc' = "search_wait"
    /\ UNCHANGED <<hits, search_ret, documents, documents_in, request_body,
                   results, rerank_ret, result, error>>

\* the search service answers a direct search_opensearch call with hits hs
SearchReturn ==
    /\ pc = "search_wait"
    /\ entry = "search_opensearch"
    /\ \E hs \in HitLists :
          /\ hits' = hs
          /\ search_ret' = <<BuildDocuments(hs)>>
          /\ result' = <<BuildDocuments(hs)>>
    /\ trace' = Append(trace, "search_response")
    /\ pc' = "done"
    /\ UNCHANGED <<entry, query, top_n, search_body, documents, documents_in,
                   request_body, results, rerank_ret, error>>

\* the search service answers inside search_and_rerank with hits hs:
\* search_opensearch returns original_docs and rerank_with_cohere is called
\* with it
SearchReturnThenRerank ==
    /\ pc = "search_wait"
    /\ entry = "search_and_rerank"
    /\ \E hs \in HitLists :
          /\ hits' = hs
          /\ search_ret' = <<BuildDocuments(hs)>>
          /\ RerankIssue(query, BuildDocuments(hs), top_n,
                         Append(trace, "search_response"))
    /\ UNCHANGED <<entry, query, top_n, search_body>>

\* the search call raises
SearchRaise ==
    /\ pc = "search_wait"
    /\ \E exc \in SearchExceptions : Raise(exc)
    /\ trace' = Append(trace, "search_raise")
    /\ UNCHANGED <<entry, query, top_n, search_body, hits, search_ret,
                   documents, documents_in, request_body, results,
                   rerank_ret>>

\* the rerank service answers with results res: the matching loop runs and
\* the method (and, in search_and_rerank, its caller) returns
RerankReturn ==
    /\ pc = "rerank_wait"
    /\ \E res \in ResultLists :
          /\ results' = res
          /\ IF HasIndexError(documents, res)
             THEN /\ Raise("IndexError")
                  /\ rerank_ret' = rerank_ret
             ELSE /\ rerank_ret' = <<RerankedDocs(documents, res)>>
                  /\ pc' = "done"
                  /\ error' = error
                  /\ result' =
                       IF entry = "rerank_with_cohere"
                       THEN rerank_ret'
                       ELSE <<SearchAndRerankReturn(query, documents,
                                                    rerank_ret'[1])>>
    /\ trace' = Append(trace, "rerank_response")
    /\ UNCHANGED <<entry, query, top_n, search_body, hits, search_ret,
                   documents, documents_in, request_body>>

\* the rerank call raises
RerankRaise ==
    /\ pc = "rerank_wait"
    /\ \E exc \in RerankExceptions : Raise(exc)
    /\ trace' = Append(trace, "rerank_raise")
    /\ UNCHANGED <<entry, query, top_n, search_body, hits, search_ret,
                   documents, documents_in, request_body, results,
                   rerank_ret>>

Next ==
    \/ CallSearchOpensearch
    \/ CallRerankWithCohere
    \/ CallSearchAndRerank
    \/ SearchReturn
    \/ SearchReturnThenRerank
    \/ SearchRaise
    \/ RerankReturn
    \/ RerankRaise

Spec == Init /\ [][Next]_vars

(***************************************************************************)
(* Vocabulary of the properties.                                           *)
(***************************************************************************)
Min(a, b) == IF a <= b THEN a ELSE b

\* how often event e occurs in the trace
Count(e) == Cardinality({ i \in 1..Len(trace) : trace[i] = e })
Occurs(e) == \E i \in 1..Len(trace) : trace[i] = e

\* the call (direct, or made by search_and_rerank) of rerank_with_cohere
RerankCalled == documents_in # <<>>
RerankReturned == rerank_ret # <<>>
Finished == pc \in {"done", "failed"}

\* whether index i lies in 0..len(docs)-1
InRange(docs, i) == 0 <= i /\ i < Len(docs)

(***************************************************************************)
(* C1.  For non-empty documents and 1 <= top_n <= len(documents), whatever *)
(* the rerank service answers, the list rerank_with_cohere returns has     *)
(* exactly top_n records (in general min(top_n, len(documents))).          *)
(* The code returns one record per entry of the response and never looks   *)
(* at top_n again, so a response with fewer or more entries breaks this.   *)
(***************************************************************************)
C1_OutputLengthIsTopN ==
    (RerankReturned /\ documents_in[1] # <<>>)
        => Len(rerank_ret[1]) = Min(top_n, Len(documents_in[1]))

(***************************************************************************)
(* C2.  Reconciliation: where the k-th entry of the response is            *)
(* {index: i, relevance_score: s} with 0 <= i < len(documents), the k-th   *)
(* returned record has the id and source of documents[i], original_score   *)
(* the score of documents[i], and rerank_score s.                          *)
(***************************************************************************)
C2_Reconciliation ==
    RerankReturned =>
        /\ Len(rerank_ret[1]) = Len(results)
        /\ \A k \in 1..Len(results) :
              InRange(documents_in[1], results[k].index) =>
                 LET doc == documents_in[1][results[k].index + 1]
                     out == rerank_ret[1][k]
                 IN  /\ out.id = doc.id
                     /\ out.source = doc.source
                     /\ out.original_score = doc.score
                     /\ out.rerank_score = results[k].relevance_score

\* two entries, both in range, naming different documents out of input order
C2_Witness ==
    /\ RerankReturned
    /\ Len(results) = 2
    /\ Len(documents_in[1]) = 2
    /\ results[1].index = 1
    /\ results[2].index = 0
    /\ documents_in[1][1].id # documents_in[1][2].id

(***************************************************************************)
(* C3.  Ordering fidelity: the returned records are in the order of the    *)
(* response's entries, the k-th record built from the k-th entry, also     *)
(* when the rerank scores are not descending or the order disagrees with   *)
(* the retrieval scores; nothing is sorted locally.                        *)
(***************************************************************************)
C3_OrderIsResponseOrder ==
    RerankReturned =>
        /\ Len(rerank_ret[1]) = Len(results)
        /\ \A k \in 1..Len(results) :
              /\ rerank_ret[1][k].rerank_score = results[k].relevance_score
              /\ rerank_ret[1][k].id =
                    ListItem(documents_in[1], results[k].index).id

\* rerank scores ascending, and the lower retrieval score first
C3_Witness ==
    /\ RerankReturned
    /\ Len(rerank_ret[1]) = 2
    /\ results[1].relevance_score < results[2].relevance_score
    /\ rerank_ret[1][1].original_score < rerank_ret[1][2].original_score
    /\ rerank_ret[1][1].id # rerank_ret[1][2].id

(***************************************************************************)
(* C4.  Whenever the response holds an entry whose index is outside        *)
(* 0..len(documents)-1 (too large, or negative), rerank_with_cohere fails  *)
(* and returns nothing; it never substitutes another document.             *)
(* The code indexes the Python list with the index as it came: a negative  *)
(* index not below -len(documents) selects a document from the end.        *)
(***************************************************************************)
C4_OutOfRangeRaises ==
    (Occurs("rerank_response")
        /\ \E k \in 1..Len(results) :
               ~InRange(documents_in[1], results[k].index))
        => (pc = "failed" /\ rerank_ret = <<>> /\ result = <<>>)

(***************************************************************************)
(* C5.  The candidate list sent to the rerank service is index-aligned     *)
(* with the documents: same length, its i-th entry the full_text of        *)
(* documents[i] unmodified, or "" when that document has no full_text; a   *)
(* document without full_text neither makes the call fail nor shifts the   *)
(* later candidates.                                                       *)
(***************************************************************************)
C5_CandidatesAligned ==
    RerankCalled =>
        /\ request_body # <<>>
        /\ Occurs("rerank_request")
        /\ Len(request_body[1].documents) = Len(documents_in[1])
        /\ \A i \in 1..Len(documents_in[1]) :
              request_body[1].documents[i] =
                 IF "full_text" \in DOMAIN documents_in[1][i].source
                 THEN documents_in[1][i].source["full_text"]
                 ELSE ""

\* a document without full_text ahead of one with it
C5_Witness ==
    /\ RerankCalled
    /\ Len(documents_in[1]) = 2
    /\ "full_text" \notin DOMAIN documents_in[1][1].source
    /\ "full_text" \in DOMAIN documents_in[1][2].source
    /\ request_body[1].documents = <<"", "cats">>

(***************************************************************************)
(* C6.  In search_and_rerank the rerank request goes out only after the    *)
(* search call has returned; the documents given to the rerank step are    *)
(* exactly the list the search step returned; on success the value         *)
(* returned holds the query, that list as original_results and the rerank  *)
(* step's output as reranked_results.                                      *)
(***************************************************************************)
C6_PipelineComposition ==
    entry = "search_and_rerank" =>
        /\ \A i \in 1..Len(trace) :
              trace[i] = "rerank_request" =>
                 \E j \in 1..(i - 1) : trace[j] = "search_response"
        /\ RerankCalled => (search_ret # <<>> /\ documents_in = search_ret)
        /\ pc = "done" =>
              /\ Len(result) = 1
              /\ result[1].query = query
              /\ result[1].original_results = search_ret[1]
              /\ rerank_ret # <<>>
              /\ result[1].reranked_results = rerank_ret[1]

\* a successful run that retrieved more documents than it asked to rerank
C6_Witness ==
    /\ entry = "search_and_rerank"
    /\ pc = "done"
    /\ Len(search_ret[1]) = 2
    /\ top_n = 1
    /\ Len(result[1].reranked_results) = 1
    /\ Len(documents_in[1]) = 2

(***************************************************************************)
(* C7.  search_and_rerank returns no partial result and never retries: a   *)
(* failed search means no rerank request and the failure at the caller; a  *)
(* failed rerank after a successful search means the failure at the caller *)
(* and no value returned; each service is called at most once.             *)
(***************************************************************************)
C7_NoPartialNoRetry ==
    entry = "search_and_rerank" =>
        /\ Count("search_request") <= 1
        /\ Count("rerank_request") <= 1
        /\ Occurs("search_raise") =>
              /\ ~Occurs("rerank_request")
              /\ pc = "failed"
              /\ error \in SearchExceptions
              /\ result = <<>>
        /\ (Finished /\ Occurs("rerank_request") /\ rerank_ret = <<>>) =>
              /\ pc = "failed"
              /\ error \in RerankExceptions \cup {"IndexError"}
              /\ result = <<>>

\* the rerank call raised after a search that had found documents
C7_Witness ==
    /\ entry = "search_and_rerank"
    /\ Occurs("rerank_raise")
    /\ search_ret # <<>>
    /\ Len(search_ret[1]) > 0
    /\ pc = "failed"

(***************************************************************************)
(* C8.  search_opensearch returns one document per hit of the response, in *)
(* the hits' order and number, the k-th document carrying the k-th hit's   *)
(* identifier, score and field map unmodified.                             *)
(***************************************************************************)
C8_DocumentPerHit ==
    search_ret # <<>> =>
        /\ Len(search_ret[1]) = Len(hits)
        /\ \A k \in 1..Len(hits) :
              /\ search_ret[1][k].id = hits[k]._id
              /\ search_ret[1][k].score = hits[k]._score
              /\ search_ret[1][k].source = hits[k]._source
        /\ (entry = "search_opensearch" /\ pc = "done") => result = search_ret

\* a direct call answered with two different hits, the lower score first
C8_Witness ==
    /\ entry = "search_opensearch"
    /\ pc = "done"
    /\ Len(hits) = 2
    /\ hits[1]._score < hits[2]._score
    /\ result[1][1].id = hits[1]._id

(***************************************************************************)
(* C9.  With an empty documents list rerank_with_cohere does not           *)
(* short-circuit: exactly one request goes to the rerank service, with an  *)
(* empty candidate list, and the outcome is what the response dictates (a  *)
(* raised call fails, empty results return [], any entry fails on its      *)
(* index); in search_and_rerank a search with zero hits still leads to a   *)
(* rerank request.                                                         *)
(***************************************************************************)
C9_EmptyDocumentsStillSent ==
    /\ (RerankCalled /\ documents_in[1] = <<>>) =>
          /\ Count("rerank_request") = 1
          /\ request_body # <<>>
          /\ request_body[1].documents = <<>>
          /\ ~Finished => pc = "rerank_wait"
          /\ Occurs("rerank_raise") =>
                (pc = "failed" /\ error \in RerankExceptions)
          /\ (Occurs("rerank_response") /\ results = <<>>) =>
                (pc = "done" /\ rerank_ret = << <<>> >>)
          /\ (Occurs("rerank_response") /\ results # <<>>) =>
                (pc = "failed" /\ error = "IndexError")
    /\ (entry = "search_and_rerank" /\ search_ret = << <<>> >>) =>
          Occurs("rerank_request")

\* a search with zero hits whose rerank response was then read
C9_Witness ==
    /\ entry = "search_and_rerank"
    /\ search_ret = << <<>> >>
    /\ Occurs("rerank_response")
    /\ results = <<>>
    /\ pc = "done"

(***************************************************************************)
(* C10.  rerank_with_cohere leaves its input unchanged: after the call,    *)
(* succeeded or failed, the documents list has the length, order and       *)
(* documents (id, score, field map) it had before, so the original_results *)
(* that search_and_rerank returns is what the search step produced.        *)
(***************************************************************************)
C10_InputUnchanged ==
    RerankCalled =>
        /\ Len(documents) = Len(documents_in[1])
        /\ \A i \in 1..Len(documents) :
              /\ documents[i].id = documents_in[1][i].id
              /\ documents[i].score = documents_in[1][i].score
              /\ documents[i].source = documents_in[1][i].source
        /\ (entry = "search_and_rerank" /\ pc = "done") =>
              result[1].original_results = documents_in[1]

\* a finished call on two documents, one of them with a full_text to read
C10_Witness ==
    /\ RerankCalled
    /\ Finished
    /\ Len(documents_in[1]) = 2
    /\ "full_text" \in DOMAIN documents_in[1][1].source
    /\ error = "IndexError"

=============================================================================
